---- MODULE Spec2Model ----
(***************************************************************************)
(* Menu tree service (NestJS + TypeORM + PostgreSQL).                      *)
(*                                                                         *)
(* The repository holds two MenusService implementations side by side:     *)
(*   "main": src/src/menus/dto/query-menu.dto.ts lines 50-293              *)
(*           (unicodeSlug, ensureUniqueSlug, no transaction),              *)
(*   "tx":   src/src/menus/dto/query-menu.dto.ts lines 307-496             *)
(*           (toSlug, create inside a transaction with an advisory lock).  *)
(* The variable `variant` fixes which one serves the requests of a run.    *)
(*                                                                         *)
(* Strings are sequences of characters; a character is a one-character     *)
(* TLA+ string, or a named token for a code point outside ASCII.           *)
(* The table `menus` is the function `store` from the stored ids to rows.  *)
(***************************************************************************)
EXTENDS Integers, Sequences, FiniteSets, TLC

VARIABLES variant, store, nextId, last, procs, pending, locks, calls

vars == <<variant, store, nextId, last, procs, pending, locks, calls>>

----------------------------------------------------------------------------
(* Characters and character classes                                        *)

\* Tokens for code points outside ASCII.
NBSP == "NBSP"
E_ACUTE == "E_ACUTE"

\* Hangul: the conjoining jamo U+1100 and U+1161, and the syllable U+AC00
\* that is their canonical composition
HANGUL_KIYEOK == "HANGUL_KIYEOK"
HANGUL_A == "HANGUL_A"
HANGUL_GA == "HANGUL_GA"

AsciiUpper == {"A", "B"}
AsciiLower == {"a", "b", "c", "d", "e", "f", "m", "n", "u"}
AsciiDigits == {"0", "1", "2", "3", "4", "5", "6", "7", "8", "9"}

\* JavaScript \s (and what String.prototype.trim strips)
IsSpace(c) == c \in {" ", NBSP}

\* \p{L}
IsLetter(c) ==
    c \in AsciiUpper \cup AsciiLower
            \cup {E_ACUTE, HANGUL_KIYEOK, HANGUL_A, HANGUL_GA}

\* \p{N}
IsNumber(c) == c \in AsciiDigits

\* \w  is [A-Za-z0-9_]
IsWord(c) == c \in AsciiUpper \cup AsciiLower \cup AsciiDigits \cup {"_"}

\* String.prototype.toLowerCase, per character
ToLowerChar(c) ==
    CASE c = "A" -> "a"
      [] c = "B" -> "b"
      [] OTHER -> c

\* String.prototype.normalize('NFKC'), first half: the compatibility
\* decomposition of one code point. The no-break space decomposes to U+0020,
\* the syllable U+AC00 to its two jamo; the other characters of the alphabet
\* decompose to themselves.
NfkcChar(c) ==
    IF c = NBSP THEN <<" ">>
    ELSE IF c = HANGUL_GA THEN <<HANGUL_KIYEOK, HANGUL_A>>
    ELSE <<c>>

----------------------------------------------------------------------------
(* String helpers                                                          *)

EmptyStr == <<>>

RECURSIVE NfkcDecompose(_)
NfkcDecompose(s) ==
    IF s = <<>> THEN <<>> ELSE NfkcChar(Head(s)) \o NfkcDecompose(Tail(s))

\* normalize('NFKC'), second half: canonical composition of adjacent pairs
RECURSIVE NfkcCompose(_)
NfkcCompose(s) ==
    IF Len(s) < 2 THEN s
    ELSE IF s[1] = HANGUL_KIYEOK /\ s[2] = HANGUL_A
    THEN <<HANGUL_GA>> \o NfkcCompose(SubSeq(s, 3, Len(s)))
    ELSE <<Head(s)>> \o NfkcCompose(Tail(s))

Nfkc(s) == NfkcCompose(NfkcDecompose(s))

RECURSIVE TrimLeft(_)
TrimLeft(s) ==
    IF s = <<>> THEN s
    ELSE IF IsSpace(Head(s)) THEN TrimLeft(Tail(s)) ELSE s

RECURSIVE TrimRight(_)
TrimRight(s) ==
    IF s = <<>> THEN s
    ELSE IF IsSpace(s[Len(s)]) THEN TrimRight(SubSeq(s, 1, Len(s) - 1)) ELSE s

\* String.prototype.trim
Trim(s) == TrimRight(TrimLeft(s))

RECURSIVE DropSpaces(_)
DropSpaces(s) ==
    IF s = <<>> THEN s
    ELSE IF IsSpace(Head(s)) THEN DropSpaces(Tail(s)) ELSE s

\* replace(/\s+/g, '-')
RECURSIVE SpacesToHyphen(_)
SpacesToHyphen(s) ==
    IF s = <<>> THEN <<>>
    ELSE IF IsSpace(Head(s)) THEN <<"-">> \o SpacesToHyphen(DropSpaces(s))
    ELSE <<Head(s)>> \o SpacesToHyphen(Tail(s))

RECURSIVE DropHyphens(_)
DropHyphens(s) ==
    IF s = <<>> THEN s
    ELSE IF Head(s) = "-" THEN DropHyphens(Tail(s)) ELSE s

\* replace(/-+/g, '-')
RECURSIVE CollapseHyphens(_)
CollapseHyphens(s) ==
    IF s = <<>> THEN <<>>
    ELSE IF Head(s) = "-" THEN <<"-">> \o CollapseHyphens(DropHyphens(s))
    ELSE <<Head(s)>> \o CollapseHyphens(Tail(s))

RECURSIVE DropTrailingHyphens(_)
DropTrailingHyphens(s) ==
    IF s = <<>> THEN s
    ELSE IF s[Len(s)] = "-" THEN DropTrailingHyphens(SubSeq(s, 1, Len(s) - 1))
    ELSE s

\* replace(/^-+|-+$/g, '')
StripHyphens(s) == DropTrailingHyphens(DropHyphens(s))

\* replace(/-/g, '')
RemoveHyphens(s) == SelectSeq(s, LAMBDA c : c # "-")

RECURSIVE MapLower(_)
MapLower(s) ==
    IF s = <<>> THEN <<>> ELSE <<ToLowerChar(Head(s))>> \o MapLower(Tail(s))

\* Number -> decimal string, as a template literal prints it
DigitChar(d) ==
    CASE d = 0 -> "0" [] d = 1 -> "1" [] d = 2 -> "2" [] d = 3 -> "3"
      [] d = 4 -> "4" [] d = 5 -> "5" [] d = 6 -> "6" [] d = 7 -> "7"
      [] d = 8 -> "8" [] d = 9 -> "9"

RECURSIVE Decimal(_)
Decimal(n) ==
    IF n < 10 THEN <<DigitChar(n)>>
    ELSE Decimal(n \div 10) \o <<DigitChar(n % 10)>>

----------------------------------------------------------------------------
(* Optional values of a DTO                                                *)

Undef == <<"undefined">>
Null == <<"null">>
Val(v) == <<"value", v>>
Defined(o) == o[1] = "value"
Get(o) == o[2]

----------------------------------------------------------------------------
(* utils/slug.util                                                         *)

\* s is an optional string
isEmptyOrHyphens(s) ==
    IF ~Defined(s) \/ Get(s) = EmptyStr THEN TRUE
    ELSE Trim(RemoveHyphens(Get(s))) = EmptyStr

unicodeSlug(input) ==
    IF input = EmptyStr THEN EmptyStr
    ELSE LET normalized == Trim(Nfkc(input))
             s1 == SpacesToHyphen(normalized)
             s2 == SelectSeq(s1, LAMBDA c :
                       IsLetter(c) \/ IsNumber(c) \/ c \in {"-", "_", ".", "~"})
         IN  StripHyphens(CollapseHyphens(s2))

\* the transactional variant's own slug function
toSlug(s) ==
    LET t == Trim(MapLower(s))
        kept == SelectSeq(t, LAMBDA c : IsWord(c) \/ IsSpace(c) \/ c = "-")
    IN  SpacesToHyphen(kept)

----------------------------------------------------------------------------
(* The table `menus` (entity Menu) and the queries the service sends       *)

\* parent: Menu | null -- the column parentId holds NULL for a root
NoParent == 0

\* the first value of the id sequence (PrimaryGeneratedColumn)
FirstId == 1

EmptyStore == [i \in {} |-> 0]

Row(name, slug, order, isActive, parent) ==
    [name |-> name, slug |-> slug, order |-> order, isActive |-> isActive,
     parent |-> parent]

\* repo.findOne({ where: { id } }) finds a row
Exists(st, id) == id \in DOMAIN st

\* repo.exist({ where: { slug } })
SlugExists(st, slug) == \E i \in DOMAIN st : st[i].slug = slug

\* repo.findOne({ where: { slug } }): the ids of the rows found (at most one)
FindBySlug(st, slug) == {i \in DOMAIN st : st[i].slug = slug}

Children(st, id) == {i \in DOMAIN st : st[i].parent = id}

\* repo.findDescendants(menu): the node itself and every node below it
RECURSIVE DescendantsFrom(_, _, _)
DescendantsFrom(st, frontier, seen) ==
    IF frontier = {} THEN seen
    ELSE LET next == {i \in DOMAIN st : st[i].parent \in frontier} \ seen
         IN  DescendantsFrom(st, next, seen \cup next)

\* mutant: the node and its direct children only
FindDescendantsOneLevel(st, id) == {id} \cup {i \in DOMAIN st : st[i].parent = id}

\* mutant: the node alone
FindDescendantsSelf(st, id) == {id}

\* repo.findDescendants(menu): the node and every node below it
FindDescendants(st, id) == DescendantsFrom(st, {id}, {id})

\* findOne({ where: { id } }) asks for no relations, so the entity it returns
\* has no `children` property: menu.children?.length is undefined
LoadedChildrenLength(st, id) == 0

\* mutant: the maximum over the whole table
MaxOrderAll(st, pid) ==
    LET orders == {st[i].order : i \in DOMAIN st}
    IN  IF orders = {} THEN 0
        ELSE CHOOSE m \in orders : \A o \in orders : o <= m

\* SELECT COALESCE(MAX(menu."order"), 0) over the sibling group of pid
MaxOrder(st, pid) ==
    LET orders == {st[i].order : i \in Children(st, pid)}
    IN  IF orders = {} THEN 0
        ELSE CHOOSE m \in orders : \A o \in orders : o <= m

\* Results of a call
Ok == [kind |-> "ok", code |-> ""]
NotFound == [kind |-> "NotFoundException", code |-> ""]
BadRequest == [kind |-> "BadRequestException", code |-> ""]
QueryFailed(code) == [kind |-> "QueryFailedError", code |-> code]

\* what the storage answered to the statement that persists, for a call that
\* got that far
NoDb == [kind |-> "none", code |-> ""]

\* PostgreSQL error codes
UNIQUE_VIOLATION == "23505"
FOREIGN_KEY_VIOLATION == "23503"
CONNECTION_FAILURE == "08006"
NOT_NULL_VIOLATION == "23502"

\* @Index({ unique: true }) on name and on slug; no index covers "order"
UniqueViolation(st, id, row) ==
    \E j \in DOMAIN st \ {id} :
        st[j].name = row.name \/ st[j].slug = row.slug

\* mutant: the table has no foreign key on parentId
ParentUnchecked(st, row) == FALSE

\* the foreign key of @TreeParent: parentId references menus(id)
ParentMissing(st, row) == row.parent # NoParent /\ row.parent \notin DOMAIN st

\* mutant: the write of isActive goes on to the children of the row
DbSaveCascade(st, id, row, fault) ==
    IF fault THEN [res |-> QueryFailed(CONNECTION_FAILURE), store |-> st]
    ELSE IF UniqueViolation(st, id, row)
    THEN [res |-> QueryFailed(UNIQUE_VIOLATION), store |-> st]
    ELSE IF ParentMissing(st, row)
    THEN [res |-> QueryFailed(FOREIGN_KEY_VIOLATION), store |-> st]
    ELSE [res |-> Ok,
          store |-> [i \in DOMAIN st \cup {id} |->
                       IF i = id THEN row
                       ELSE IF st[i].parent = id
                       THEN [st[i] EXCEPT !.isActive = row.isActive]
                       ELSE st[i]]]

\* mutant: a row that collides in a unique index is written all the same
DbSaveThenFail(st, id, row, fault) ==
    IF fault THEN [res |-> QueryFailed(CONNECTION_FAILURE), store |-> st]
    ELSE IF ParentMissing(st, row)
    THEN [res |-> QueryFailed(FOREIGN_KEY_VIOLATION), store |-> st]
    ELSE [res |-> IF UniqueViolation(st, id, row)
                  THEN QueryFailed(UNIQUE_VIOLATION) ELSE Ok,
          store |-> [i \in DOMAIN st \cup {id} |-> IF i = id THEN row ELSE st[i]]]

\* INSERT or UPDATE of one row; `fault` is a storage failure that is not a
\* constraint violation. The result and the table after the statement.
DbSave(st, id, row, fault) ==
    IF fault THEN [res |-> QueryFailed(CONNECTION_FAILURE), store |-> st]
    ELSE IF UniqueViolation(st, id, row)
    THEN [res |-> QueryFailed(UNIQUE_VIOLATION), store |-> st]
    ELSE IF ParentMissing(st, row)
    THEN [res |-> QueryFailed(FOREIGN_KEY_VIOLATION), store |-> st]
    ELSE [res |-> Ok,
          store |-> [i \in DOMAIN st \cup {id} |-> IF i = id THEN row ELSE st[i]]]

\* the entity of an update as repo.save gets it: order and isActive may be
\* null, and both columns are NOT NULL
DbSaveEntity(st, id, entity, fault) ==
    IF fault THEN [res |-> QueryFailed(CONNECTION_FAILURE), store |-> st]
    ELSE IF entity.order = Null \/ entity.isActive = Null
    THEN [res |-> QueryFailed(NOT_NULL_VIOLATION), store |-> st]
    ELSE DbSave(st, id,
                Row(entity.name, entity.slug, Get(entity.order),
                    Get(entity.isActive), entity.parent),
                fault)

\* DELETE of one row: the foreign key (ON DELETE NO ACTION) rejects it while
\* another row references it
DbDelete(st, id, fault) ==
    IF fault THEN [res |-> QueryFailed(CONNECTION_FAILURE), store |-> st]
    ELSE IF Children(st, id) # {}
    THEN [res |-> QueryFailed(FOREIGN_KEY_VIOLATION), store |-> st]
    ELSE [res |-> Ok, store |-> [i \in DOMAIN st \ {id} |-> st[i]]]

\* getPgErrorCode(err) === '23505' ? BadRequestException : err
TranslateError(res) ==
    IF res.kind = "QueryFailedError" /\ res.code = UNIQUE_VIOLATION
    THEN BadRequest ELSE res

----------------------------------------------------------------------------
(* MenusService, "main"                                                    *)

\* `menu-${randomUUID().slice(0, 8)}`; rnd is the eight hex digits
RandomSlug(rnd) == <<"m", "e", "n", "u", "-">> \o rnd

TrimOpt(o) == IF Defined(o) THEN Val(Trim(Get(o))) ELSE o

\* create, lines 90-93: the normalized base, before the random fallback
CreateBase(dto) ==
    LET raw == TrimOpt(dto.slug)
        sourceForSlug == IF ~isEmptyOrHyphens(raw) THEN Get(raw) ELSE dto.name
    IN  unicodeSlug(sourceForSlug)

\* create, lines 101-105 (and 331-335): if (dto.parentId) { findOne ... }
ParentGiven(dto) == Defined(dto.parentId) /\ Get(dto.parentId) # 0

IsActiveOr(o, dflt) == IF Defined(o) THEN Get(o) ELSE dflt

\* findOne(id), remove(id), update(id, ...): the row, or NotFoundException
FindOne(st, id) == IF Exists(st, id) THEN Ok ELSE NotFound

\* update, lines 210-216: the name step
UpdateName(menu, dto) ==
    IF Defined(dto.name) THEN Trim(Get(dto.name)) ELSE menu.name

NameChanged(menu, dto) ==
    /\ Defined(dto.name)
    /\ Trim(Get(dto.name)) # EmptyStr
    /\ Trim(Get(dto.name)) # menu.name

\* update, lines 221-225 and 232-233: the normalized base; menu.name is
\* already the new name
UpdateBase(menu, dto) ==
    LET name == UpdateName(menu, dto)
        raw == IF Defined(dto.slug) THEN Val(Trim(Get(dto.slug))) ELSE Val(EmptyStr)
        source == IF dto.slug # Undef
                  THEN (IF ~isEmptyOrHyphens(raw) THEN Get(raw) ELSE name)
                  ELSE name
    IN  unicodeSlug(source)

UpdateParent(menu, dto) ==
    IF dto.parentId = Undef THEN menu.parent
    ELSE IF dto.parentId = Null THEN NoParent
    ELSE Get(dto.parentId)

\* repo.findTrees(): the trees of the table, one per row without a parent
Roots(st) == {i \in DOMAIN st : st[i].parent = NoParent}

\* findTreeById(id): trees.find((t) => t.id === id) looks at the roots only.
\* data is the set of nodes of the tree returned.
FindTreeById(st, id) ==
    IF id \in Roots(st) THEN [res |-> Ok, data |-> FindDescendants(st, id)]
    ELSE [res |-> NotFound, data |-> {}]

MinOf(a, b) == IF a <= b THEN a ELSE b

\* mutant: the quotient rounded down
FloorDiv(a, b) == a \div b

\* Math.ceil(a / b) for a >= 0 and b > 0
CeilDiv(a, b) == (a + b - 1) \div b

\* the ids of a set of rows in the order of their creation
RECURSIVE SortedIds(_)
SortedIds(ids) ==
    IF ids = {} THEN <<>>
    ELSE LET m == CHOOSE x \in ids : \A y \in ids : x <= y
         IN  <<m>> \o SortedIds(ids \ {m})

\* findAndCount({ order, skip, take }): the rows skip+1 .. skip+take
SkipTake(seq, skip, take) ==
    SubSeq(seq, skip + 1, MinOf(skip + take, Len(seq)))

\* findFlat(q) without search, sorted by createdAt ascending (the default)
FindFlat(st, q) ==
    LET page == IF Defined(q.page) THEN Get(q.page) ELSE 1
        limit == MinOf(IF Defined(q.limit) THEN Get(q.limit) ELSE 20, 100)
        skip == (page - 1) * limit
        total == Cardinality(DOMAIN st)
    IN  [items |-> SkipTake(SortedIds(DOMAIN st), skip, limit),
         pagination |-> [page |-> page, limit |-> limit, total |-> total,
                         totalPages |-> CeilDiv(total, limit)]]

----------------------------------------------------------------------------
(* MenusService, "tx"                                                      *)

\* create, line 327: dto.slug?.trim() || toSlug(dto.name)
CreateSlugTx(dto) ==
    IF Defined(dto.slug) /\ Trim(Get(dto.slug)) # EmptyStr
    THEN Trim(Get(dto.slug)) ELSE toSlug(dto.name)

\* try { save } catch (e) { if (e?.code === '23505') BadRequest; throw e }
\* QueryFailedError carries the driver error's code
TranslateErrorTx(res) ==
    IF res.kind = "QueryFailedError" /\ res.code = UNIQUE_VIOLATION
    THEN BadRequest ELSE res

\* if (dto.name)
Truthy(o) == Defined(o) /\ Get(o) # EmptyStr

\* update, lines 449-459: name and slug
UpdateNameTx(menu, dto) ==
    IF Truthy(dto.name) THEN Trim(Get(dto.name)) ELSE menu.name

UpdateSlugTx(menu, dto) ==
    IF Truthy(dto.slug) THEN Trim(Get(dto.slug))
    ELSE IF Truthy(dto.name) THEN toSlug(Get(dto.name))
    ELSE menu.slug

\* update, order and isActive as the entity carries them to save. "main",
\* lines 265-270: !== undefined && !== null; "tx", lines 460-461:
\* !== undefined only, so a null of the body is assigned
UpdateOrder(v, menu, dto) ==
    IF Defined(dto.order) THEN dto.order
    ELSE IF v = "tx" /\ dto.order = Null THEN Null
    ELSE Val(menu.order)

UpdateIsActive(v, menu, dto) ==
    IF Defined(dto.isActive) THEN dto.isActive
    ELSE IF v = "tx" /\ dto.isActive = Null THEN Null
    ELSE Val(menu.isActive)

\* lines 455-457: the slug belongs to another row
SlugDupeTx(st, id, dto) ==
    /\ Truthy(dto.slug)
    /\ FindBySlug(st, Trim(Get(dto.slug))) \ {id} # {}

----------------------------------------------------------------------------
(* Requests                                                                *)

\* the id sequence stops here: at most MaxId rows are ever inserted
MaxId == 3

Dto(name, slug, order, isActive, parentId) ==
    [name |-> name, slug |-> slug, order |-> order, isActive |-> isActive,
     parentId |-> parentId]

NoDto == Dto(Undef, Undef, Undef, Undef, Undef)

\* randomUUID().slice(0, 8)
RandomHex == {<<"0", "0", "0", "0", "0", "0", "0", "1">>,
              <<"c", "a", "f", "e", "0", "0", "0", "2">>}

\* randomUUID() is called only for an empty base, and only by "main"
RandomFor(v, base) ==
    IF v = "main" /\ base = EmptyStr THEN RandomHex ELSE {EmptyStr}

\* an id no row ever has
MissingId == MaxId + 1

\* ids a request may name
RequestIds == 1 .. MissingId

\* POST /menus bodies (CreateMenuDto: name is a non-empty string)
CreateDtos ==
    {Dto(n, Undef, Undef, Undef, p) :
        n \in {<<"a">>, <<" ", "b">>, <<"c">>},
        p \in {Undef, Val(0)} \cup {Val(i) : i \in RequestIds}}
    \cup {Dto(<<"c">>, Undef, Val(1), Undef, Undef)}

\* PATCH /menus/:id bodies: a name; a slug; order: null; a parent
UpdateDtos ==
    {Dto(Val(<<"a">>), Undef, Undef, Undef, Undef),
     Dto(Undef, Val(<<"a">>), Undef, Undef, Undef),
     Dto(Undef, Undef, Null, Undef, Undef)}
    \cup {Dto(Undef, Undef, Undef, Undef, p) :
             p \in {Null} \cup {Val(i) : i \in RequestIds}}

Call(op, id, dto, out) ==
    [op |-> op, id |-> id, dto |-> dto, res |-> out.res, db |-> out.db]

Procs == {"p1", "p2"}

NoRow == Row(EmptyStr, EmptyStr, 0, FALSE, NoParent)

\* a request handler between two awaits: where it is and its local variables
Idle ==
    [pc |-> "idle", op |-> "none", id |-> 0, dto |-> NoDto, base |-> EmptyStr,
     i |-> 0, menu |-> NoRow, out |-> [res |-> Ok, db |-> NoDb]]

NoLocks == [k \in {} |-> ""]

NoPending == [p \in {} |-> 0]

\* how many calls of each operation have begun
NoCalls == [create |-> 0, update |-> 0, remove |-> 0]

CallsBegun == calls.create + calls.update + calls.remove

Init ==
    /\ variant \in {"main", "tx"}
    /\ store = EmptyStore
    /\ nextId = FirstId
    /\ last = Call("none", 0, NoDto, [res |-> Ok, db |-> NoDb])
    /\ procs = [p \in Procs |-> Idle]
    /\ pending = NoPending
    /\ locks = NoLocks
    /\ calls = NoCalls

----------------------------------------------------------------------------
(* The handlers: each action is one handler running from one await to the  *)
(* next; every query and statement is one round trip to PostgreSQL, and    *)
(* other handlers run in between                                           *)

\* the requests of a run: no call begins after MaxCalls have begun
MaxCalls == 4

Creating == {q \in Procs : procs[q].op = "create"}

\* the call of p goes on at pc with the locals rec
Goto(p, rec) == procs' = [procs EXCEPT ![p] = rec]

\* the call of p ends
Finish(p, out) ==
    /\ last' = Call(procs[p].op, procs[p].id, procs[p].dto, out)
    /\ procs' = [procs EXCEPT ![p] = Idle]

FinishAs(p, op, id, dto, out) ==
    /\ last' = Call(op, id, dto, out)
    /\ procs' = [procs EXCEPT ![p] = Idle]

Failed(res) == [res |-> res, db |-> NoDb]

\* rows inserted by transactions of other requests that have not committed
OthersPending(p) == {pending[q] : q \in DOMAIN pending \ {p}}

\* a statement of p has to wait for another transaction to end: its row would
\* collide with an uncommitted row in a unique index
WaitsForUnique(p, row) ==
    \E u \in OthersPending(p) : u.row.name = row.name \/ u.row.slug = row.slug

\* a DELETE has to wait while an uncommitted row references the row
WaitsForReference(p, id) == \E u \in OthersPending(p) : u.row.parent = id

\* create: the first await that follows the slug step
AfterCreateSlug(v, dto) ==
    IF ParentGiven(dto) THEN "parent"
    ELSE IF v = "tx" THEN "lock"
    ELSE IF Defined(dto.order) THEN "save" ELSE "max"

NewEntity(dto, slug) ==
    Row(Trim(dto.name), slug, IF Defined(dto.order) THEN Get(dto.order) ELSE 0,
        IsActiveOr(dto.isActive, TRUE), NoParent)

\* mutant: the suffix is one more than the counter
CandidateSkipped(base, i) == base \o <<"-">> \o Decimal(i + 1)

\* `${base}-${i}`
Candidate(base, i) == base \o <<"-">> \o Decimal(i)

\* create(dto) is called with a body of dtos; it runs to its first query,
\* exist({ slug }) or findOne({ where: { slug } }), and on to the next await
BeginCreate(p, dtos) ==
    /\ procs[p].pc = "idle"
    /\ CallsBegun < MaxCalls
    /\ nextId + Cardinality(Creating) <= MaxId
    /\ \E dto \in dtos :
       \E rnd \in RandomFor(variant, CreateBase(dto)) :
        LET base == IF variant = "tx" THEN CreateSlugTx(dto)
                    ELSE IF CreateBase(dto) = EmptyStr THEN RandomSlug(rnd)
                    ELSE CreateBase(dto)
            rec == [Idle EXCEPT !.op = "create", !.id = 0, !.dto = dto,
                                !.base = base, !.menu = NewEntity(dto, base)]
        IN  IF SlugExists(store, base)
            THEN IF variant = "tx"
                 THEN FinishAs(p, "create", 0, dto, Failed(BadRequest))
                 ELSE /\ Goto(p, [rec EXCEPT !.pc = "probe", !.i = 2])
                      /\ UNCHANGED last
            ELSE /\ Goto(p, [rec EXCEPT !.pc = AfterCreateSlug(variant, dto)])
                 /\ UNCHANGED last
    /\ calls' = [calls EXCEPT !.create = @ + 1]
    /\ UNCHANGED <<variant, store, nextId, pending, locks>>

\* ensureUniqueSlug: one turn of the while loop
CreateProbe(p) ==
    /\ procs[p].pc = "probe" /\ procs[p].op = "create"
    /\ LET me == procs[p]
           cand == Candidate(me.base, me.i)
       IN  IF SlugExists(store, cand)
           THEN Goto(p, [me EXCEPT !.i = me.i + 1])
           ELSE Goto(p, [me EXCEPT !.pc = AfterCreateSlug(variant, me.dto),
                                   !.menu.slug = cand])
    /\ UNCHANGED <<variant, store, nextId, last, pending, locks, calls>>

\* parent = await this.repo.findOne({ where: { id: dto.parentId } })
CreateParentLookup(p) ==
    /\ procs[p].pc = "parent" /\ procs[p].op = "create"
    /\ LET me == procs[p]
           pid == Get(me.dto.parentId)
       IN  IF ~Exists(store, pid)
           THEN Finish(p, Failed(NotFound))
           ELSE /\ Goto(p, [me EXCEPT !.menu.parent = pid,
                               !.pc = IF variant = "tx" THEN "lock"
                                      ELSE IF Defined(me.dto.order) THEN "save"
                                      ELSE "max"])
                /\ UNCHANGED last
    /\ UNCHANGED <<variant, store, nextId, pending, locks, calls>>

\* lockKey = parent?.id ?? 0
LockKey(parent) == IF parent = NoParent THEN 0 ELSE parent

LocksAfterAcquire(lk, key, p) ==
    [k \in DOMAIN lk \cup {key} |-> IF k = key THEN p ELSE lk[k]]

\* mutant: a lock that outlives its transaction (pg_advisory_lock)
LocksKeptAfterEnd(lk, p) == lk

\* the end of a transaction releases the locks it took
LocksAfterEnd(lk, p) == [k \in {x \in DOMAIN lk : lk[x] # p} |-> lk[k]]

\* the transaction begins and SELECT pg_advisory_xact_lock(lockKey) returns:
\* it waits while another transaction holds the key
CreateLock(p) ==
    /\ procs[p].pc = "lock" /\ procs[p].op = "create"
    /\ LET me == procs[p]
           key == LockKey(me.menu.parent)
       IN  /\ key \notin DOMAIN locks
           /\ locks' = LocksAfterAcquire(locks, key, p)
           /\ Goto(p, [me EXCEPT !.pc = IF Defined(me.dto.order) THEN "save"
                                        ELSE "max"])
    /\ UNCHANGED <<variant, store, nextId, last, pending, calls>>

\* SELECT COALESCE(MAX(menu."order"), 0): sees the committed rows
CreateMaxOrder(p) ==
    /\ procs[p].pc = "max" /\ procs[p].op = "create"
    /\ LET me == procs[p]
       IN  Goto(p, [me EXCEPT !.pc = "save",
                              !.menu.order = MaxOrder(store, me.menu.parent) + 1])
    /\ UNCHANGED <<variant, store, nextId, last, pending, locks, calls>>

\* repo.save(entity): the INSERT; the storage fails it or not (faults). In
\* "main" it commits by itself and the catch block translates its error. In
\* "tx" the row stays uncommitted until COMMIT, and an error leaves the
\* callback: the transaction has still to be rolled back.
CreateSave(p, faults) ==
    /\ procs[p].pc = "save" /\ procs[p].op = "create"
    /\ \E fault \in faults :
       LET me == procs[p]
           db == DbSave(store, nextId, me.menu, fault)
           call == [me EXCEPT !.id = nextId]
       IN  /\ ~WaitsForUnique(p, me.menu)
           /\ nextId' = IF fault THEN nextId ELSE nextId + 1
           /\ IF variant = "main"
              THEN /\ store' = db.store
                   /\ FinishAs(p, "create", nextId, me.dto,
                               [res |-> TranslateError(db.res), db |-> db.res])
                   /\ UNCHANGED <<pending, locks>>
              ELSE IF db.res # Ok
              THEN /\ Goto(p, [call EXCEPT !.pc = "rollback",
                                          !.out = [res |-> TranslateErrorTx(db.res),
                                                   db |-> db.res]])
                   /\ UNCHANGED <<store, last, pending, locks>>
              ELSE /\ pending' = [q \in DOMAIN pending \cup {p} |->
                                    IF q = p THEN [id |-> nextId, row |-> me.menu]
                                    ELSE pending[q]]
                   /\ Goto(p, [call EXCEPT !.pc = "commit"])
                   /\ UNCHANGED <<store, last, locks>>
    /\ UNCHANGED <<variant, calls>>

\* COMMIT: the row becomes visible and the advisory lock is released
CreateCommit(p) ==
    /\ procs[p].pc = "commit" /\ procs[p].op = "create"
    /\ LET mine == pending[p]
       IN  store' = [i \in DOMAIN store \cup {mine.id} |->
                        IF i = mine.id THEN mine.row ELSE store[i]]
    /\ pending' = [q \in DOMAIN pending \ {p} |-> pending[q]]
    /\ locks' = LocksAfterEnd(locks, p)
    /\ Finish(p, [res |-> Ok, db |-> Ok])
    /\ UNCHANGED <<variant, nextId, calls>>

\* ROLLBACK: dataSource.transaction ends the transaction whose callback has
\* thrown, the advisory lock is released, and the error reaches the caller
CreateRollback(p) ==
    /\ procs[p].pc = "rollback" /\ procs[p].op = "create"
    /\ locks' = LocksAfterEnd(locks, p)
    /\ Finish(p, procs[p].out)
    /\ UNCHANGED <<variant, store, nextId, pending, calls>>

\* update: where the handler goes once the slug step is over. The test
\* dto.parentId === id needs no query, so its error ends the call at once.
AfterUpdateSlug(id, dto) ==
    IF dto.parentId = Undef \/ dto.parentId = Null THEN "save"
    ELSE IF Get(dto.parentId) = id THEN "self"
    ELSE "newParent"

\* "main": the slug step has to ask the table
NeedsProbe(menu, dto, baseSlug) ==
    (dto.slug # Undef \/ NameChanged(menu, dto)) /\ baseSlug # menu.slug

\* update(id, dto) is called with an id of ids and a body of dtos; it runs
\* findOne(id) and on to the next await
BeginUpdate(p, ids, dtos) ==
    /\ procs[p].pc = "idle"
    /\ CallsBegun < MaxCalls
    /\ \E id \in ids, dto \in dtos :
       \E rnd \in RandomFor(variant, IF Exists(store, id)
                                     THEN UpdateBase(store[id], dto)
                                     ELSE <<"x">>) :
        IF ~Exists(store, id)
        THEN FinishAs(p, "update", id, dto, Failed(NotFound))
        ELSE
          LET menu == store[id]
              base == IF UpdateBase(menu, dto) = EmptyStr THEN RandomSlug(rnd)
                      ELSE UpdateBase(menu, dto)
              named == IF variant = "main"
                       THEN [menu EXCEPT !.name = UpdateName(menu, dto)]
                       ELSE [menu EXCEPT !.name = UpdateNameTx(menu, dto),
                                         !.slug = UpdateSlugTx(menu, dto)]
              rec == [Idle EXCEPT !.op = "update", !.id = id, !.dto = dto,
                                  !.base = base, !.menu = named]
              next == AfterUpdateSlug(id, dto)
          IN  IF variant = "main" /\ NeedsProbe(menu, dto, base)
              THEN /\ Goto(p, [rec EXCEPT !.pc = "probe", !.i = 1])
                   /\ UNCHANGED last
              ELSE IF variant = "tx" /\ Truthy(dto.slug)
              THEN /\ Goto(p, [rec EXCEPT !.pc = "dupe"])
                   /\ UNCHANGED last
              ELSE IF next = "self"
              THEN FinishAs(p, "update", id, dto, Failed(BadRequest))
              ELSE /\ Goto(p, [rec EXCEPT !.pc = next])
                   /\ UNCHANGED last
    /\ calls' = [calls EXCEPT !.update = @ + 1]
    /\ UNCHANGED <<variant, store, nextId, pending, locks>>

\* "main", ensureUniqueSlug: the first exist() (i = 1) or one turn of the loop
UpdateProbe(p) ==
    /\ procs[p].pc = "probe" /\ procs[p].op = "update"
    /\ LET me == procs[p]
           cand == IF me.i = 1 THEN me.base ELSE Candidate(me.base, me.i)
           next == AfterUpdateSlug(me.id, me.dto)
       IN  IF SlugExists(store, cand)
           THEN /\ Goto(p, [me EXCEPT !.i = me.i + 1])
                /\ UNCHANGED last
           ELSE IF next = "self"
           THEN Finish(p, Failed(BadRequest))
           ELSE /\ Goto(p, [me EXCEPT !.pc = next, !.menu.slug = cand])
                /\ UNCHANGED last
    /\ UNCHANGED <<variant, store, nextId, pending, locks, calls>>

\* "tx": dupe = await this.repo.findOne({ where: { slug } })
UpdateDupe(p) ==
    /\ procs[p].pc = "dupe" /\ procs[p].op = "update"
    /\ LET me == procs[p]
           next == AfterUpdateSlug(me.id, me.dto)
       IN  IF SlugDupeTx(store, me.id, me.dto) \/ next = "self"
           THEN Finish(p, Failed(BadRequest))
           ELSE /\ Goto(p, [me EXCEPT !.pc = next])
                /\ UNCHANGED last
    /\ UNCHANGED <<variant, store, nextId, pending, locks, calls>>

\* newParent = await this.repo.findOne({ where: { id: dto.parentId } })
UpdateParentLookup(p) ==
    /\ procs[p].pc = "newParent" /\ procs[p].op = "update"
    /\ IF ~Exists(store, Get(procs[p].dto.parentId))
       THEN Finish(p, Failed(NotFound))
       ELSE /\ Goto(p, [procs[p] EXCEPT !.pc = "descendants"])
            /\ UNCHANGED last
    /\ UNCHANGED <<variant, store, nextId, pending, locks, calls>>

\* descendants = await this.repo.findDescendants(menu)
UpdateDescendants(p) ==
    /\ procs[p].pc = "descendants" /\ procs[p].op = "update"
    /\ IF Get(procs[p].dto.parentId) \in FindDescendants(store, procs[p].id)
       THEN Finish(p, Failed(BadRequest))
       ELSE /\ Goto(p, [procs[p] EXCEPT !.pc = "save"])
            /\ UNCHANGED last
    /\ UNCHANGED <<variant, store, nextId, pending, locks, calls>>

\* repo.save(menu): the columns of the entity in memory are written; the
\* parent only when the call has set it. A row that is gone is inserted.
UpdateSave(p, faults) ==
    /\ procs[p].pc = "save" /\ procs[p].op = "update"
    /\ \E fault \in faults :
       LET me == procs[p]
           now == IF Exists(store, me.id) THEN store[me.id] ELSE NoRow
           entity == [name |-> me.menu.name, slug |-> me.menu.slug,
                      order |-> UpdateOrder(variant, me.menu, me.dto),
                      isActive |-> UpdateIsActive(variant, me.menu, me.dto),
                      parent |-> UpdateParent(now, me.dto)]
           db == DbSaveEntity(store, me.id, entity, fault)
       IN  /\ ~WaitsForUnique(p, entity)
           /\ store' = db.store
           /\ Finish(p, [res |-> IF variant = "main" THEN TranslateError(db.res)
                                 ELSE db.res,
                         db |-> db.res])
    /\ UNCHANGED <<variant, nextId, pending, locks, calls>>

\* remove(id) is called with an id of ids: findOne(id) and the test of
\* menu.children
BeginRemove(p, ids) ==
    /\ procs[p].pc = "idle"
    /\ CallsBegun < MaxCalls
    /\ \E id \in ids :
        IF ~Exists(store, id)
        THEN FinishAs(p, "remove", id, NoDto, Failed(NotFound))
        ELSE IF LoadedChildrenLength(store, id) > 0
        THEN FinishAs(p, "remove", id, NoDto, Failed(BadRequest))
        ELSE /\ Goto(p, [Idle EXCEPT !.pc = "delete", !.op = "remove", !.id = id])
             /\ UNCHANGED last
    /\ calls' = [calls EXCEPT !.remove = @ + 1]
    /\ UNCHANGED <<variant, store, nextId, pending, locks>>

\* await this.repo.remove(menu)
RemoveDelete(p, faults) ==
    /\ procs[p].pc = "delete" /\ procs[p].op = "remove"
    /\ \E fault \in faults :
       LET db == DbDelete(store, procs[p].id, fault)
       IN  /\ ~WaitsForReference(p, procs[p].id)
           /\ store' = db.store
           /\ Finish(p, [res |-> db.res, db |-> db.res])
    /\ UNCHANGED <<variant, nextId, pending, locks, calls>>

\* GET /menus/:id without tree=true: findOne(id), one query
GetOne(p, ids) ==
    /\ procs[p].pc = "idle"
    /\ \E id \in ids :
        last' = Call("getOne", id, NoDto, [res |-> FindOne(store, id), db |-> NoDb])
    /\ UNCHANGED <<variant, store, nextId, procs, pending, locks, calls>>

\* the awaits of a create, of an update and of a remove that has begun
ResumeCreate(p, faults) ==
    \/ CreateProbe(p) \/ CreateParentLookup(p) \/ CreateLock(p)
    \/ CreateMaxOrder(p) \/ CreateSave(p, faults) \/ CreateCommit(p)
    \/ CreateRollback(p)

ResumeUpdate(p, faults) ==
    \/ UpdateProbe(p) \/ UpdateDupe(p) \/ UpdateParentLookup(p)
    \/ UpdateDescendants(p) \/ UpdateSave(p, faults)

----------------------------------------------------------------------------
(* One client: it sends a request when the answer to the one before has    *)
(* come; the storage may fail a statement                                  *)

OneClient == {"p1"}

Next ==
    \E p \in OneClient :
        \/ BeginCreate(p, CreateDtos) \/ ResumeCreate(p, BOOLEAN)
        \/ BeginUpdate(p, RequestIds, UpdateDtos) \/ ResumeUpdate(p, BOOLEAN)
        \/ BeginRemove(p, RequestIds) \/ RemoveDelete(p, BOOLEAN)
        \/ GetOne(p, RequestIds)

Spec == Init /\ [][Next]_vars

----------------------------------------------------------------------------
(* Two clients: their requests overlap in every way; the storage does not  *)
(* fail                                                                    *)

ConcCreateDtos ==
    {Dto(<<"a">>, Undef, Undef, Undef, Undef),
     Dto(<<"b">>, Undef, Undef, Undef, Undef),
     Dto(<<"c">>, Val(<<"a">>), Undef, Undef, Undef),
     Dto(<<"c">>, Undef, Undef, Undef, Val(1))}

ConcUpdateDtos ==
    {Dto(Undef, Val(<<"a">>), Undef, Undef, Undef),
     Dto(Undef, Undef, Undef, Undef, Val(1)),
     Dto(Undef, Undef, Undef, Undef, Val(2))}

ConcIds == {1, 2}

NoFault == {FALSE}

ConcNext ==
    \E p \in Procs :
        \/ BeginCreate(p, ConcCreateDtos) \/ ResumeCreate(p, NoFault)
        \/ BeginUpdate(p, ConcIds, ConcUpdateDtos) \/ ResumeUpdate(p, NoFault)
        \/ BeginRemove(p, ConcIds) \/ RemoveDelete(p, NoFault)

ConcSpec == Init /\ [][ConcNext]_vars

\* a handler that has begun goes on from its await: the event loop resumes
\* it when PostgreSQL answers, and PostgreSQL answers a statement that does
\* not have to wait for another transaction
Resume(p) ==
    ResumeCreate(p, NoFault) \/ ResumeUpdate(p, NoFault) \/ RemoveDelete(p, NoFault)

\* the concurrent requests under fair scheduling: no handler that can go on
\* is left waiting for ever; new requests may or may not arrive
LiveSpec == ConcSpec /\ \A p \in Procs : WF_vars(Resume(p))

----------------------------------------------------------------------------
(* Reads of a table that creates have filled                               *)

\* the number of rows of the largest table that is read
MaxTotal == 25

\* the table after create({name: '1'}), create({name: '2'}) and then
\* create({name: 'i', parentId: i - 2}) for i = 3 .. n: two chains
FilledStore(n) ==
    [i \in 1 .. n |->
        Row(Decimal(i), Decimal(i), IF i = 2 THEN 2 ELSE 1, TRUE,
            IF i <= 2 THEN NoParent ELSE i - 2)]

Query(page, limit) == [page |-> page, limit |-> limit]

NoQuery == Query(Undef, Undef)

\* GET /menus?page=&limit=
Pages == {Undef} \cup {Val(p) : p \in 1 .. 4}

Limits == {Undef} \cup {Val(l) : l \in {1, 10, 13, 100, 101}}

\* a finished read: the request and what it returned
ReadCall(op, id, q, res, data) ==
    [op |-> op, id |-> id, dto |-> NoDto, res |-> res, db |-> NoDb,
     q |-> q, data |-> data]

ReadInit ==
    /\ variant \in {"main", "tx"}
    /\ \E n \in 0 .. MaxTotal :
          /\ store = FilledStore(n)
          /\ nextId = n + 1
    /\ last = Call("none", 0, NoDto, [res |-> Ok, db |-> NoDb])
    /\ procs = [p \in Procs |-> Idle]
    /\ pending = NoPending
    /\ locks = NoLocks
    /\ calls = NoCalls

\* GET /menus
ListFlat ==
    \E page \in Pages, limit \in Limits :
        /\ last' = ReadCall("findFlat", 0, Query(page, limit), Ok,
                            FindFlat(store, Query(page, limit)))
        /\ UNCHANGED <<variant, store, nextId, procs, pending, locks, calls>>

\* GET /menus/:id?tree=true
GetSubtree ==
    \E id \in 1 .. nextId :
        /\ LET out == FindTreeById(store, id)
           IN  last' = ReadCall("getSubtree", id, NoQuery, out.res, out.data)
        /\ UNCHANGED <<variant, store, nextId, procs, pending, locks, calls>>

ReadNext == ListFlat \/ GetSubtree

ReadSpec == ReadInit /\ [][ReadNext]_vars

----------------------------------------------------------------------------
(* unicodeSlug applied to the strings of a small alphabet                  *)

\* the longest input string
MaxLen == 3

\* a letter, a digit, whitespace (U+0020 and U+00A0), a hyphen, a kept and a
\* stripped punctuation mark, and two letters that compose under NFKC
SlugAlphabet == {"a", "1", " ", NBSP, "-", "_", "!", HANGUL_KIYEOK, HANGUL_A}

Strings(n) == UNION {[1 .. k -> SlugAlphabet] : k \in 0 .. n}

\* a call of a function of utils/slug.util: its argument and what it returned
PureCall(op, arg, data) ==
    [op |-> op, id |-> 0, dto |-> NoDto, res |-> Ok, db |-> NoDb,
     arg |-> arg, data |-> data]

NormInit ==
    /\ variant = "main"
    /\ store = EmptyStore
    /\ nextId = FirstId
    /\ \E x \in Strings(MaxLen) : last = PureCall("input", x, EmptyStr)
    /\ procs = [p \in Procs |-> Idle]
    /\ pending = NoPending
    /\ locks = NoLocks
    /\ calls = NoCalls

Normalize ==
    /\ last.op = "input"
    /\ last' = PureCall("unicodeSlug", last.arg, unicodeSlug(last.arg))
    /\ UNCHANGED <<variant, store, nextId, procs, pending, locks, calls>>

NormNext == Normalize

NormSpec == NormInit /\ [][NormNext]_vars

----------------------------------------------------------------------------
(* One client, with names and slugs of every shape                         *)

\* POST /menus bodies: a plain name; a slug that is taken; a slug that is
\* taken, under a parent; a name of punctuation only; a hyphen-only slug
FieldCreateDtos ==
    {Dto(<<"a">>, Undef, Undef, Undef, Undef),
     Dto(<<"c">>, Val(<<"a">>), Undef, Undef, Undef),
     Dto(<<"b">>, Val(<<"a">>), Undef, Undef, Val(1)),
     Dto(<<"!">>, Undef, Undef, Undef, Undef),
     Dto(<<"B">>, Val(<<"-">>), Undef, Undef, Undef)}

\* PATCH /menus/:id bodies: a whitespace-only name; a new name; a slug to
\* normalize; an empty slug; a plain slug; isActive; isActive: null; a new
\* parent
FieldUpdateDtos ==
    {Dto(Val(<<" ">>), Undef, Undef, Undef, Undef),
     Dto(Val(<<"A", " ", "b">>), Undef, Undef, Undef, Undef),
     Dto(Undef, Val(<<"A", " ", "b">>), Undef, Undef, Undef),
     Dto(Undef, Val(EmptyStr), Undef, Undef, Undef),
     Dto(Undef, Val(<<"a">>), Undef, Undef, Undef),
     Dto(Undef, Undef, Undef, Val(FALSE), Undef),
     Dto(Undef, Undef, Undef, Null, Undef),
     Dto(Undef, Undef, Undef, Undef, Val(2))}

FieldNext ==
    \E p \in OneClient :
        \/ BeginCreate(p, FieldCreateDtos) \/ ResumeCreate(p, NoFault)
        \/ BeginUpdate(p, ConcIds, FieldUpdateDtos) \/ ResumeUpdate(p, NoFault)

FieldSpec == Init /\ [][FieldNext]_vars

----------------------------------------------------------------------------
(* Properties                                                              *)

\* the nodes reached from i by following parent references, one or more steps
RECURSIVE AncestorsFrom(_, _, _)
AncestorsFrom(st, frontier, seen) ==
    LET next == {st[j].parent : j \in frontier \cap DOMAIN st}
                    \ ({NoParent} \cup seen)
    IN  IF next = {} THEN seen ELSE AncestorsFrom(st, next, seen \cup next)

AncestorsOf(st, i) == AncestorsFrom(st, {i}, {})

IsMutation(call) == call.op \in {"create", "update", "remove"}

StorageFault(call) == call.db = QueryFailed(CONNECTION_FAILURE)

ParentOnly(p) == Dto(Undef, Undef, Undef, Undef, Val(p))

NamesUnique(st) ==
    \A i, j \in DOMAIN st : i # j => st[i].name # st[j].name

NameTaken(st, id, name) == \E j \in DOMAIN st \ {id} : st[j].name = name

SlugsUnique(st) ==
    \A i, j \in DOMAIN st : i # j => st[i].slug # st[j].slug

SlugTaken(st, id, slug) == \E j \in DOMAIN st \ {id} : st[j].slug = slug

OnlyCreatesBegun == calls.update = 0 /\ calls.remove = 0

\* a call returns in this step: a handler that was running is over, or a
\* handler began and ended without an await in between
Returned ==
    \/ \E p \in Procs : procs[p].pc # "idle" /\ procs'[p].pc = "idle"
    \/ procs' = procs /\ (calls' # calls \/ last' # last)

\* the call that returns in this step is a call of op
Ends(op) == Returned /\ last'.op = op

EndsIn(ops) == Returned /\ last'.op \in ops

\* C1: with one request at a time, following parent references from any
\* stored node never comes back to that node.
C1_Acyclic == \A i \in DOMAIN store : i \notin AncestorsOf(store, i)

\* an update has moved a node under another and left a chain of three nodes
C1_Witness ==
    /\ last.op = "update" /\ last.res = Ok /\ Defined(last.dto.parentId)
    /\ \E i \in DOMAIN store :
          /\ store[i].parent # NoParent
          /\ store[store[i].parent].parent # NoParent

\* C2: update(id, {parentId: p}) on a stored id is refused with
\* BadRequestException and changes nothing when p is id or a descendant of
\* id, and succeeds and makes p the parent when p is another stored node that
\* is not a descendant of id (chain A -> B -> C: A under C and B under B are
\* refused, C under A succeeds).
C2_ReparentGuard ==
    [][(/\ Ends("update")
        /\ Exists(store, last'.id)
        /\ Defined(last'.dto.parentId)
        /\ last'.dto = ParentOnly(Get(last'.dto.parentId))
        /\ ~StorageFault(last'))
       => LET id == last'.id
              p == Get(last'.dto.parentId)
          IN  /\ (p = id \/ id \in AncestorsOf(store, p))
                    => (last'.res = BadRequest /\ store' = store)
              /\ (Exists(store, p) /\ p # id /\ id \notin AncestorsOf(store, p))
                    => (/\ last'.res = Ok
                        /\ DOMAIN store' = DOMAIN store
                        /\ store'[id].parent = p)]_vars

\* the head of a chain of three was asked to move under the tail, and refused
C2_Witness ==
    /\ last.op = "update" /\ last.res = BadRequest
    /\ Defined(last.dto.parentId)
    /\ Exists(store, last.id)
    /\ \E b, c \in DOMAIN store :
          /\ store[b].parent = last.id
          /\ store[c].parent = b
          /\ Get(last.dto.parentId) = c

\* C3 (as claimed): remove(id) of a node with children is refused with
\* BadRequestException and changes nothing; remove(id) of a stored node
\* without children succeeds and deletes exactly that node.
C3_RemoveGuard ==
    [][(/\ Ends("remove")
        /\ Exists(store, last'.id)
        /\ ~StorageFault(last'))
       => IF Children(store, last'.id) # {}
          THEN last'.res = BadRequest /\ store' = store
          ELSE /\ last'.res = Ok
               /\ store' = [i \in DOMAIN store \ {last'.id} |-> store[i]]]_vars

\* C4 (as claimed): within a sibling group no two nodes have the same order.
C4_OrderUniqueInGroup ==
    \A i, j \in DOMAIN store :
        (i # j /\ store[i].parent = store[j].parent)
            => store[i].order # store[j].order

\* C5 (as claimed): create calls without an explicit order that run
\* concurrently in one sibling group commit with pairwise different orders,
\* whatever the interleaving. (No request of ConcCreateDtos names an order.)
C5_ConcurrentCreateOrders ==
    OnlyCreatesBegun
        => \A i, j \in DOMAIN store :
              (i # j /\ store[i].parent = store[j].parent)
                  => store[i].order # store[j].order

\* C6 (as claimed): no two stored nodes have the same slug, and a create or
\* update that finds its slug taken when it persists, after its own probe
\* found the slug free, fails with BadRequestException.
C6_SlugUnique ==
    /\ SlugsUnique(store)
    /\ (/\ last.op \in {"create", "update"}
        /\ last.db = QueryFailed(UNIQUE_VIOLATION)
        /\ Defined(last.dto.slug)
        /\ SlugTaken(store, last.id, Trim(Get(last.dto.slug))))
       => last.res = BadRequest

\* C7 (as claimed): no two stored nodes have the same name; a create whose
\* trimmed name is the name of a stored node, and an update that sets the name
\* of a different stored node, fail with BadRequestException and change nothing.
C7_NameUnique ==
    [][/\ NamesUnique(store')
       /\ (/\ Ends("create")
           /\ ~StorageFault(last')
           /\ (Defined(last'.dto.parentId) => Exists(store, Get(last'.dto.parentId)))
           /\ NameTaken(store, 0, Trim(last'.dto.name)))
          => (last'.res = BadRequest /\ store' = store)
       /\ (/\ Ends("update")
           /\ ~StorageFault(last')
           /\ Exists(store, last'.id)
           /\ Defined(last'.dto.name)
           /\ NameTaken(store, last'.id, Trim(Get(last'.dto.name))))
          => (last'.res = BadRequest /\ store' = store)]_vars

\* C8: a create, update or remove that ends in an error leaves the table as
\* it was.
C8_AllOrNothing ==
    [][(Returned /\ IsMutation(last') /\ last'.res # Ok) => store' = store]_vars

\* a create was refused by the unique index on name, with rows stored
C8_Witness ==
    /\ last.op = "create" /\ last.res = BadRequest
    /\ last.db = QueryFailed(UNIQUE_VIOLATION)
    /\ store # EmptyStore

\* C9 (as claimed): when the statement that persists a create or an update
\* fails with a uniqueness violation the call fails with BadRequestException;
\* when it fails with another storage error the call fails with that error.
C9_PersistErrors ==
    (last.op \in {"create", "update"} /\ last.db.kind = "QueryFailedError")
        => IF last.db.code = UNIQUE_VIOLATION
           THEN last.res = BadRequest
           ELSE last.res = last.db

\* C10 (as claimed): create with a parentId that no stored node has, update
\* with an id or a parentId that no stored node has, remove and getOne with an
\* id that no stored node has: NotFoundException, and the table is unchanged.
C10_NotFound ==
    [][/\ (/\ Ends("create")
           /\ Defined(last'.dto.parentId)
           /\ ~Exists(store, Get(last'.dto.parentId))
           /\ (variant = "tx" => FindBySlug(store, CreateSlugTx(last'.dto)) = {}))
          => (last'.res = NotFound /\ store' = store)
       /\ (/\ EndsIn({"update", "remove", "getOne"})
           /\ ~Exists(store, last'.id))
          => (last'.res = NotFound /\ store' = store)
       /\ (/\ Ends("update")
           /\ Exists(store, last'.id)
           /\ Defined(last'.dto.parentId)
           /\ last'.dto = ParentOnly(Get(last'.dto.parentId))
           /\ ~Exists(store, Get(last'.dto.parentId)))
          => (last'.res = NotFound /\ store' = store)]_vars

\* the node id and every node that has id among its ancestors
SubtreeOf(st, id) == {id} \cup {j \in DOMAIN st : id \in AncestorsOf(st, j)}

\* C11 (as claimed): getSubtree(id) returns the node id with all of its
\* descendants for every stored id, root or not, and fails with
\* NotFoundException only when no stored node has the id.
C11_GetSubtree ==
    last.op = "getSubtree"
        => IF Exists(store, last.id)
           THEN last.res = Ok /\ last.data = SubtreeOf(store, last.id)
           ELSE last.res = NotFound

\* C12: with T stored nodes, page p >= 1 and limit l >= 1, listFlat uses
\* L = min(l, 100), returns min(L, max(0, T - (p-1)*L)) items and reports
\* {page: p, limit: L, total: T, totalPages: ceil(T/L)}.
C12_Pagination ==
    (/\ last.op = "findFlat"
     /\ Defined(last.q.page) /\ Defined(last.q.limit))
        => LET p == Get(last.q.page)
               l == Get(last.q.limit)
               L == IF l < 100 THEN l ELSE 100
               T == Cardinality(DOMAIN store)
               rest == T - (p - 1) * L
               n == IF rest <= 0 THEN 0 ELSE IF rest < L THEN rest ELSE L
               pages == CHOOSE k \in 0 .. T : k * L >= T /\ (k - 1) * L < T
           IN  /\ Len(last.data.items) = n
               /\ last.data.pagination =
                      [page |-> p, limit |-> L, total |-> T, totalPages |-> pages]

\* 25 nodes, limit 10, page 3: five items and three pages
C12_Witness ==
    /\ last.op = "findFlat"
    /\ Cardinality(DOMAIN store) = 25
    /\ last.q = Query(Val(3), Val(10))
    /\ Len(last.data.items) = 5
    /\ last.data.pagination.totalPages = 3

HasSpace(s) == \E i \in 1 .. Len(s) : IsSpace(s[i])

HasHyphenPair(s) == \E i \in 1 .. Len(s) - 1 : s[i] = "-" /\ s[i + 1] = "-"

HyphensOnly(s) == \A i \in 1 .. Len(s) : s[i] = "-"

\* the shape of a normalized slug: no hyphen at either end, no two hyphens
\* in a row, no whitespace
WellFormedSlug(s) ==
    /\ s # EmptyStr => (s[1] # "-" /\ s[Len(s)] # "-")
    /\ ~HasHyphenPair(s)
    /\ ~HasSpace(s)

\* C19 (as claimed): unicodeSlug(unicodeSlug(x)) = unicodeSlug(x) for every
\* input x; the output has no hyphen at either end, no two adjacent hyphens
\* and no whitespace, and is empty for an empty or hyphen-only input.
C19_NormalizeIdempotent ==
    last.op = "unicodeSlug"
        => /\ unicodeSlug(last.data) = last.data
           /\ WellFormedSlug(last.data)
           /\ HyphensOnly(last.arg) => last.data = EmptyStr

\* the stored nodes that have the parent par (NoParent: the root group)
SiblingGroup(st, par) == {j \in DOMAIN st : st[j].parent = par}

\* n is one more than the largest order of the group, or 1 for an empty group
IsNextOrder(st, par, n) ==
    IF SiblingGroup(st, par) = {} THEN n = 1
    ELSE /\ \E j \in SiblingGroup(st, par) : st[j].order = n - 1
         /\ \A j \in SiblingGroup(st, par) : st[j].order <= n - 1

\* C14: a create without an explicit order stores 1 + the largest order of
\* the nodes with the same parent (1 for an empty group); a create with an
\* explicit order stores that order; the first create into an empty table
\* without parentId stores order 1 and no parent.
C14_CreateOrder ==
    [][(Ends("create") /\ last'.res = Ok)
       => LET dto == last'.dto
              row == store'[last'.id]
          IN  /\ last'.id \notin DOMAIN store
              /\ IF Defined(dto.order) THEN row.order = Get(dto.order)
                 ELSE IsNextOrder(store, row.parent, row.order)
              /\ (store = EmptyStore /\ dto.parentId = Undef /\ dto.order = Undef)
                    => (row.order = 1 /\ row.parent = NoParent)]_vars

\* a create without order came third in its sibling group and got order 3
C14_Witness ==
    /\ last.op = "create" /\ last.res = Ok
    /\ last.dto.order = Undef
    /\ last.id \in DOMAIN store
    /\ store[last.id].order = 3

\* C20 (as claimed): when update calls interleave, no two stored nodes are
\* ancestors of each other.
C20_ConcurrentAcyclic ==
    ~ \E a, b \in DOMAIN store :
          a \in AncestorsOf(store, b) /\ b \in AncestorsOf(store, a)

Suffixed(base, k) == base \o <<"-">> \o Decimal(k)

\* s is base when no node has the slug base, and otherwise base-k for the
\* smallest k >= 2 that no node has
IsResolved(st, base, s) ==
    IF ~SlugTaken(st, 0, base) THEN s = base
    ELSE \E k \in 2 .. Cardinality(DOMAIN st) + 2 :
            /\ s = Suffixed(base, k)
            /\ ~SlugTaken(st, 0, s)
            /\ \A j \in 2 .. k - 1 : SlugTaken(st, 0, Suffixed(base, j))

\* C13: ensureUniqueSlug(base), as create calls it, returns base when no
\* stored node has it and otherwise base-k for the smallest k >= 2 that is
\* free; the returned slug is never the slug of a stored node.
C13_EnsureUniqueSlug ==
    [][(/\ variant = "main"
        /\ Ends("create") /\ last'.res = Ok
        /\ CreateBase(last'.dto) # EmptyStr)
       => LET s == store'[last'.id].slug
          IN  /\ IsResolved(store, CreateBase(last'.dto), s)
              /\ ~SlugTaken(store, 0, s)]_vars

\* the slugs a and a-2 were stored and a create with base a got a-3
C13_Witness ==
    /\ variant = "main"
    /\ last.op = "create" /\ last.res = Ok
    /\ last.id \in DOMAIN store
    /\ store[last.id].slug = <<"a", "-", "3">>
    /\ SlugTaken(store, last.id, <<"a">>)
    /\ SlugTaken(store, last.id, <<"a", "-", "2">>)

\* C15 (as claimed): update(id, {name: n}) stores trim(n) when it is not
\* empty and differs from the current name, and leaves the name as it was
\* when trim(n) is empty.
C15_UpdateName ==
    [][(/\ Ends("update") /\ last'.res = Ok
        /\ Defined(last'.dto.name))
       => LET n == Trim(Get(last'.dto.name))
              id == last'.id
          IN  IF n # EmptyStr /\ n # store[id].name
              THEN store'[id].name = n
              ELSE store'[id].name = store[id].name]_vars

\* the name step as claimed: the trimmed name is not empty and is new
ClaimedNameChange(menu, dto) ==
    /\ Defined(dto.name)
    /\ Trim(Get(dto.name)) # EmptyStr
    /\ Trim(Get(dto.name)) # menu.name

IsSynthesized(s) == Len(s) > 5 /\ SubSeq(s, 1, 5) = <<"m", "e", "n", "u", "-">>

\* C16 (as claimed): update changes the slug only when a slug field is
\* supplied or, without one, when the name changed. The base is the
\* normalized source (the supplied slug unless empty or hyphen-only, else the
\* name after the name step); the slug is kept when the base equals it and
\* otherwise becomes the base made unique. Without a slug field and without
\* a changed name the slug stays.
C16_UpdateSlug ==
    [][(Ends("update") /\ last'.res = Ok)
       => LET id == last'.id
              dto == last'.dto
              menu == store[id]
              supplied == Defined(dto.slug)
              source == IF supplied /\ ~isEmptyOrHyphens(Val(Trim(Get(dto.slug))))
                        THEN Trim(Get(dto.slug))
                        ELSE store'[id].name
              base == unicodeSlug(source)
              s == store'[id].slug
          IN  IF supplied \/ ClaimedNameChange(menu, dto)
              THEN IF base = menu.slug THEN s = menu.slug
                   ELSE IF base = EmptyStr THEN IsSynthesized(s)
                   ELSE IsResolved(store, base, s)
              ELSE s = menu.slug]_vars

\* C17 (as claimed): every stored node has a non-empty slug.
C17_SlugNonEmpty == \A i \in DOMAIN store : store[i].slug # EmptyStr

\* C18: a successful update(id, input) changes the node id only: every other
\* stored node keeps all of its fields, its isActive and its parent included.
C18_UpdateFrame ==
    [][(Ends("update") /\ last'.res = Ok)
       => /\ DOMAIN store' = DOMAIN store
          /\ \A j \in DOMAIN store \ {last'.id} : store'[j] = store[j]]_vars

\* a node with an active child was set inactive
C18_Witness ==
    /\ last.op = "update" /\ last.res = Ok
    /\ last.dto.isActive = Val(FALSE)
    /\ last.id \in DOMAIN store
    /\ ~store[last.id].isActive
    /\ \E j \in Children(store, last.id) : store[j].isActive

\* C21: in every reachable state every stored node's parent reference is
\* null or points to a stored node, also when a remove of the parent runs
\* between the parent lookup of a create or update and its save.
C21_ReferentialIntegrity ==
    \A i \in DOMAIN store :
        store[i].parent = NoParent \/ store[i].parent \in DOMAIN store

\* a create looked its parent up, the parent was removed before the save,
\* and the INSERT was rejected by the foreign key
C21_Witness ==
    /\ last.op = "create"
    /\ last.db = QueryFailed(FOREIGN_KEY_VIOLATION)
    /\ ParentGiven(last.dto)
    /\ Get(last.dto.parentId) \notin DOMAIN store
    /\ last.id \notin DOMAIN store

\* C22 (as claimed): update is idempotent: when a successful update(id, input)
\* is followed at once by the same update(id, input), the second call
\* succeeds and leaves the table as the first call left it.
C22_UpdateIdempotent ==
    [][(/\ last.op = "update" /\ last.res = Ok
        /\ Ends("update") /\ last'.id = last.id /\ last'.dto = last.dto)
       => (last'.res = Ok /\ store' = store)]_vars

\* the advisory locks the transaction of p holds
LocksHeld(p) == {k \in DOMAIN locks : locks[k] = p}

\* p is inside its create transaction, the lock taken
InTransaction(p) ==
    /\ procs[p].op = "create"
    /\ procs[p].pc \in {"max", "save", "commit", "rollback"}

\* the create of p waits for the advisory lock that q holds
WaitsForLock(p, q) ==
    /\ procs[p].op = "create" /\ procs[p].pc = "lock"
    /\ LockKey(procs[p].menu.parent) \in LocksHeld(q)

\* the INSERT of p waits for the uncommitted row of q in a unique index
WaitsForRow(p, q) ==
    /\ procs[p].op = "create" /\ procs[p].pc = "save"
    /\ q \in DOMAIN pending
    /\ (pending[q].row.name = procs[p].menu.name
        \/ pending[q].row.slug = procs[p].menu.slug)

\* every create that starts ends
CreatesEnd == \A p \in Procs : (procs[p].op = "create") ~> (procs[p].pc = "idle")

\* a create transaction holds the one lock of its parent, and nothing holds
\* a lock outside a create transaction
OneLockEach ==
    \A p \in Procs :
        LocksHeld(p) = IF variant = "tx" /\ InTransaction(p)
                       THEN {LockKey(procs[p].menu.parent)} ELSE {}

\* C23 (as claimed): under fair scheduling every create that starts ends;
\* each create transaction holds exactly the advisory lock of its parent
\* until it ends; creates under different parents never wait for each other.
C23_CreatesEndNeverWait ==
    /\ CreatesEnd
    /\ []OneLockEach
    /\ [](\A p, q \in Procs :
            (WaitsForLock(p, q) \/ WaitsForRow(p, q))
            => procs[p].menu.parent = procs[q].menu.parent)

\* C23 (amended): under fair scheduling every create that starts ends; each
\* create transaction holds exactly the advisory lock of its parent until it
\* ends; creates under different parents never wait for each other's
\* advisory lock.
C23_CreatesEnd ==
    /\ CreatesEnd
    /\ []OneLockEach
    /\ [](\A p, q \in Procs :
            WaitsForLock(p, q) => procs[p].menu.parent = procs[q].menu.parent)

\* two create transactions under different parents hold their locks at the
\* same time
C23_Witness ==
    /\ variant = "tx"
    /\ \A p \in Procs : InTransaction(p) /\ LocksHeld(p) # {}
    /\ procs["p1"].menu.parent # procs["p2"].menu.parent

====
